---- MODULE Spec2Model ----
(***************************************************************************)
(* VisRTX: the frame object of the RTX device (devices/rtx/frame/Frame.cu) *)
(* and the device state it shares with the other objects.  The model       *)
(* covers the accumulation state machine (frameID, checkerboardID,         *)
(* invFrameID, the pending-reset flag), the deferred commit and upload     *)
(* buffers with their flush time stamps, and the channel mapper.           *)
(*                                                                         *)
(* invFrameID is the float 1.f / (frameID + 1); it is represented by its   *)
(* denominator (0 stands for the initial 0.f), which is exact for the      *)
(* small frame counts explored here.                                       *)
(***************************************************************************)
EXTENDS Integers, FiniteSets, Sequences, TLC

(* ---- bounds of the exploration ---- *)
MaxCommits == 2
MaxUploads == 1
MaxFrameID == 2
MaxCalls == 5
MaxSurfaces == 2
MaxVolumeSamples == 1
MaxQuads == 2
MaxQuadCommits == 2
MaxVolumeCommits == 2

(* ---- values ---- *)
ANARI_UNKNOWN == "ANARI_UNKNOWN"
ANARI_FLOAT32 == "ANARI_FLOAT32"
ANARI_UINT32 == "ANARI_UINT32"
ANARI_FLOAT32_VEC3 == "ANARI_FLOAT32_VEC3"
ANARI_FLOAT32_VEC4 == "ANARI_FLOAT32_VEC4"
ANARI_UFIXED8_RGBA_SRGB == "ANARI_UFIXED8_RGBA_SRGB"

Quadrants == 0 .. 3

GatedChannels ==
  {"channel.depth", "channel.depthGPU", "channel.primitiveId",
   "channel.objectId", "channel.instanceId", "channel.normal",
   "channel.albedo"}

Channels == GatedChannels \cup {"channel.color", "channel.colorGPU"}

(* the parameter a channel name is requested with *)
ParamOf(c) ==
  CASE c = "channel.depth" -> "depth"
    [] c = "channel.depthGPU" -> "depth"
    [] c = "channel.primitiveId" -> "primitiveId"
    [] c = "channel.objectId" -> "objectId"
    [] c = "channel.instanceId" -> "instanceId"
    [] c = "channel.normal" -> "normal"
    [] c = "channel.albedo" -> "albedo"
    [] OTHER -> "color"

NoChannels ==
  [color |-> ANARI_UFIXED8_RGBA_SRGB, depth |-> ANARI_UNKNOWN,
   primitiveId |-> ANARI_UNKNOWN, objectId |-> ANARI_UNKNOWN,
   instanceId |-> ANARI_UNKNOWN, albedo |-> ANARI_UNKNOWN,
   normal |-> ANARI_UNKNOWN]

(* parameters of a frame object: the three required objects ("ok": set and *)
(* valid, "invalid": set but isValid() is false, "missing": not set), the   *)
(* number of pixels of "size", and the requested channel types             *)
DefaultFrameParams ==
  [renderer |-> "missing", camera |-> "missing", world |-> "missing",
   numPixels |-> 100, channel |-> NoChannels]

FramePlain ==
  [renderer |-> "ok", camera |-> "ok", world |-> "ok",
   numPixels |-> 100, channel |-> NoChannels]

FramePrimID ==
  [renderer |-> "ok", camera |-> "ok", world |-> "ok",
   numPixels |-> 100,
   channel |-> [NoChannels EXCEPT !.primitiveId = ANARI_UINT32]]

FrameDepthNormalAlbedo ==
  [renderer |-> "ok", camera |-> "ok", world |-> "ok",
   numPixels |-> 4,
   channel |-> [NoChannels EXCEPT !.depth = ANARI_FLOAT32,
                                  !.normal = ANARI_FLOAT32,
                                  !.albedo = ANARI_FLOAT32]]

FrameVec3Normal ==
  [renderer |-> "ok", camera |-> "ok", world |-> "ok",
   numPixels |-> 4,
   channel |-> [NoChannels EXCEPT !.normal = ANARI_FLOAT32_VEC3,
                                  !.objectId = ANARI_UINT32,
                                  !.instanceId = ANARI_UINT32]]

FrameIncomplete ==
  [renderer |-> "ok", camera |-> "missing", world |-> "invalid",
   numPixels |-> 100, channel |-> NoChannels]

FrameNoWorld ==
  [renderer |-> "ok", camera |-> "ok", world |-> "missing",
   numPixels |-> 100, channel |-> NoChannels]

(* the frame configurations of the accumulation runs, of the mapping runs  *)
(* and of the re-mapping runs                                              *)
FrameConfigs == {FramePlain, FrameIncomplete}

MapFrameConfigs ==
  {FramePlain, FramePrimID, FrameDepthNormalAlbedo, FrameVec3Normal,
   FrameIncomplete}

RemapFrameConfigs == {FrameDepthNormalAlbedo}

InvalidFrameConfigs == {FramePlain, FrameIncomplete, FrameNoWorld}

(* committed parameters of the renderer *)
DefaultRenderer ==
  [checkerboarding |-> FALSE, spp |-> 1, sampleLimit |-> 0, denoise |-> FALSE]

RendererConfigs ==
  { [checkerboarding |-> TRUE, spp |-> 0, sampleLimit |-> 0, denoise |-> FALSE],
    [checkerboarding |-> TRUE, spp |-> 2, sampleLimit |-> 1, denoise |-> FALSE] }

(* the configurations of the runs that switch the denoiser on and off *)
DenoiseRendererConfigs ==
  { [checkerboarding |-> FALSE, spp |-> 1, sampleLimit |-> 1, denoise |-> TRUE],
    [checkerboarding |-> FALSE, spp |-> 2, sampleLimit |-> 0, denoise |-> TRUE],
    [checkerboarding |-> FALSE, spp |-> 1, sampleLimit |-> 0, denoise |-> FALSE] }

(* renderers with a sample limit, one and several samples per pixel *)
CapRendererConfigs ==
  { [checkerboarding |-> FALSE, spp |-> 1, sampleLimit |-> 1,
     denoise |-> FALSE],
    [checkerboarding |-> FALSE, spp |-> 2, sampleLimit |-> 2,
     denoise |-> FALSE],
    [checkerboarding |-> FALSE, spp |-> 3, sampleLimit |-> 1,
     denoise |-> FALSE],
    [checkerboarding |-> TRUE, spp |-> 2, sampleLimit |-> 1,
     denoise |-> FALSE] }

Max(a, b) == IF a >= b THEN a ELSE b

VARIABLES
  state,       \* DeviceGlobalState: commit buffer, upload buffer, time stamps
  renderer,    \* the committed parameters of the renderer object
  rparams,     \* the parameters set on the renderer object
  fparams,     \* the parameters set on the frame object
  frame,       \* the members of the Frame object and its FramebufferGPUData
  inFlight,    \* m_eventEnd has not completed on the stream
  crashed,     \* the process dereferenced a null pointer
  samples,     \* per checkerboard quadrant: samples accumulated since the reset
  last,        \* what the last renderFrame call of the frame did
  api,         \* the last API call and what it returned
  mapped,      \* what the last map call returned
  used,        \* how many operations of each kind were issued
  px,          \* the locals of the raygen program for one primary ray
  quad,        \* the members of one Quad geometry object
  tf           \* two TransferFunction1D volumes and the field they share

vars ==
  <<state, renderer, rparams, fparams, frame, inFlight, crashed, samples,
    last, api, mapped, used, px, quad, tf>>

(* the variables of the frame and of the objects it renders with *)
frameVars ==
  <<state, renderer, rparams, fparams, frame, inFlight, crashed, samples,
    last, api, mapped, used>>

(* ---- DeviceGlobalState: deferred commit buffer and array upload buffer ---- *)

(* commitBufferFlush(): commits every object in the buffer and, when the    *)
(* buffer was not empty, takes a new time stamp as the last flush (a time   *)
(* stamp is compared with time stamps of the same buffer only: it is the    *)
(* number of the flush)                                                     *)
CommitBufferFlush(st) ==
  IF st.commitBuffer = {} THEN st
  ELSE [st EXCEPT !.commitBuffer = {},
                  !.commitLastFlush = st.commitLastFlush + 1]

(* uploadBuffer.flush(): uploads the pending arrays and stamps the flush *)
UploadBufferFlush(st) ==
  IF ~st.uploadPending THEN st
  ELSE [st EXCEPT !.uploadPending = FALSE,
                  !.uploadLastFlush = st.uploadLastFlush + 1]

(* ---- Frame ---- *)

(* Frame::commit() *)
FrameCommit(f, p) ==
  LET g == [f EXCEPT !.m_renderer = p.renderer,
                     !.m_camera = p.camera,
                     !.m_world = p.world,
                     !.m_valid = (p.renderer = "ok" /\ p.camera = "ok"
                                    /\ p.world = "ok")]
      ch == p.channel
      channelPrimID == ch.primitiveId = ANARI_UINT32
      channelObjID == ch.objectId = ANARI_UINT32
      channelInstID == ch.instanceId = ANARI_UINT32
      channelAlbedo == ch.albedo = ANARI_FLOAT32
      channelNormal == ch.normal = ANARI_FLOAT32
      channelDepth == ch.depth = ANARI_FLOAT32 \/ channelPrimID
                        \/ channelObjID \/ channelInstID
      numPixels == p.numPixels
      useFloatFB == f.m_denoise \/ ch.color = ANARI_FLOAT32_VEC4
      m_perPixelBytes == 4 * (IF useFloatFB THEN 4 ELSE 1)
  IN IF ~g.m_valid THEN g
     ELSE [g EXCEPT
             !.m_colorType = ch.color,
             !.fb.size = numPixels,
             !.m_depthType = IF channelDepth THEN ANARI_FLOAT32 ELSE ch.depth,
             !.m_primIDType = ch.primitiveId,
             !.m_objIDType = ch.objectId,
             !.m_instIDType = ch.instanceId,
             !.m_albedoType = ch.albedo,
             !.m_normalType = ch.normal,
             !.buf = [accumColor |-> numPixels,
                      pixel |-> numPixels * m_perPixelBytes,
                      depth |-> IF channelDepth THEN numPixels ELSE 0,
                      primID |-> IF channelPrimID THEN numPixels ELSE 0,
                      objID |-> IF channelObjID THEN numPixels ELSE 0,
                      instID |-> IF channelInstID THEN numPixels ELSE 0,
                      albedo |-> IF channelAlbedo THEN numPixels ELSE 0,
                      normal |-> IF channelNormal THEN numPixels ELSE 0],
             !.requested = ch,
             !.m_frameChanged = TRUE]

(* Frame::checkerboarding() *)
Checkerboarding(f, r) ==
  IF f.m_renderer # "missing" THEN r.checkerboarding ELSE FALSE

(* checkAccumulationReset() that compares the upload time stamp only *)
CheckAccumulationResetUploadsOnly(f, st) ==
  IF f.m_nextFrameReset THEN f
  ELSE IF f.m_lastUploadOccured < st.uploadLastFlush
         THEN [f EXCEPT !.m_lastUploadOccured = st.uploadLastFlush,
                        !.m_nextFrameReset = TRUE]
         ELSE f

(* checkAccumulationReset() that restarts the frame count as it raises the  *)
(* flag                                                                     *)
CheckAccumulationResetEager(f, st) ==
  IF f.m_nextFrameReset THEN f
  ELSE LET g == IF f.m_lastCommitOccured < st.commitLastFlush
                  THEN [f EXCEPT !.m_lastCommitOccured = st.commitLastFlush,
                                 !.m_nextFrameReset = TRUE,
                                 !.fb.frameID = 0]
                  ELSE f
       IN IF g.m_lastUploadOccured < st.uploadLastFlush
            THEN [g EXCEPT !.m_lastUploadOccured = st.uploadLastFlush,
                           !.m_nextFrameReset = TRUE,
                           !.fb.frameID = 0]
            ELSE g

(* Frame::checkAccumulationReset() *)
CheckAccumulationReset(f, st) ==
  IF f.m_nextFrameReset THEN f
  ELSE LET g == IF f.m_lastCommitOccured < st.commitLastFlush
                  THEN [f EXCEPT !.m_lastCommitOccured = st.commitLastFlush,
                                 !.m_nextFrameReset = TRUE]
                  ELSE f
       IN IF g.m_lastUploadOccured < st.uploadLastFlush
            THEN [g EXCEPT !.m_lastUploadOccured = st.uploadLastFlush,
                           !.m_nextFrameReset = TRUE]
            ELSE g

(* newFrame() that counts a frame on every call, whatever the phase *)
NewFrameCountsEveryCall(f, r) ==
  LET cb == Checkerboarding(f, r)
      g == IF f.m_nextFrameReset
             THEN [f EXCEPT !.fb.frameID = 0,
                            !.fb.checkerboardID = IF cb THEN 0 ELSE -1,
                            !.m_nextFrameReset = FALSE]
             ELSE [f EXCEPT
                     !.fb.frameID = @ + 1,
                     !.fb.checkerboardID =
                        IF cb THEN (f.fb.checkerboardID + 1) % 4 ELSE -1]
  IN [g EXCEPT !.fb.invFrameID = g.fb.frameID + 1,
               !.m_invFrameID = g.fb.frameID + 1,
               !.m_frameChanged = FALSE]

(* newFrame() that counts a frame when the phase is 0 instead of 3 *)
NewFrameCountsOnPhaseZero(f, r) ==
  LET cb == Checkerboarding(f, r)
      g == IF f.m_nextFrameReset
             THEN [f EXCEPT !.fb.frameID = 0,
                            !.fb.checkerboardID = IF cb THEN 0 ELSE -1,
                            !.m_nextFrameReset = FALSE]
             ELSE [f EXCEPT
                     !.fb.frameID =
                        IF ~cb \/ f.fb.checkerboardID = 0 THEN @ + 1 ELSE @,
                     !.fb.checkerboardID =
                        IF cb THEN (f.fb.checkerboardID + 1) % 4 ELSE -1]
  IN [g EXCEPT !.fb.invFrameID = g.fb.frameID + 1,
               !.m_invFrameID = g.fb.frameID + 1,
               !.m_frameChanged = FALSE]

(* newFrame() that recomputes the device copy of invFrameID only *)
NewFrameStaleHostCopy(f, r) ==
  LET cb == Checkerboarding(f, r)
      g == IF f.m_nextFrameReset
             THEN [f EXCEPT !.fb.frameID = 0,
                            !.fb.checkerboardID = IF cb THEN 0 ELSE -1,
                            !.m_nextFrameReset = FALSE]
             ELSE [f EXCEPT
                     !.fb.frameID =
                        IF ~cb \/ f.fb.checkerboardID = 3 THEN @ + 1 ELSE @,
                     !.fb.checkerboardID =
                        IF cb THEN (f.fb.checkerboardID + 1) % 4 ELSE -1]
  IN [g EXCEPT !.fb.invFrameID = g.fb.frameID + 1,
               !.m_frameChanged = FALSE]

(* Frame::newFrame() *)
NewFrame(f, r) ==
  LET cb == Checkerboarding(f, r)
      g == IF f.m_nextFrameReset
             THEN [f EXCEPT !.fb.frameID = 0,
                            !.fb.checkerboardID = IF cb THEN 0 ELSE -1,
                            !.m_nextFrameReset = FALSE]
             ELSE [f EXCEPT
                     !.fb.frameID =
                        IF ~cb \/ f.fb.checkerboardID = 3 THEN @ + 1 ELSE @,
                     !.fb.checkerboardID =
                        IF cb THEN (f.fb.checkerboardID + 1) % 4 ELSE -1]
  IN [g EXCEPT !.fb.invFrameID = g.fb.frameID + 1,
               !.m_invFrameID = g.fb.frameID + 1,
               !.m_frameChanged = FALSE]

(* one optixLaunch: every pixel of the launch calls accumResults once; a    *)
(* launch that follows a reset starts the count of every pixel again        *)
Launch(smp, f, r, wasReset) ==
  LET base == IF wasReset THEN [q \in Quadrants |-> 0] ELSE smp
  IN IF Checkerboarding(f, r)
       THEN [base EXCEPT ![f.fb.checkerboardID] = @ + 1]
       ELSE [q \in Quadrants |-> base[q] + 1]

(* the spp loop of Frame::renderFrame(): newFrame(), upload(), optixLaunch() *)
RECURSIVE RenderLoop(_, _, _, _)
RenderLoop(i, f, smp, r) ==
  IF i = 0 THEN [f |-> f, s |-> smp]
  ELSE LET g == NewFrame(f, r)
       IN RenderLoop(i - 1, g, Launch(smp, g, r, f.m_nextFrameReset), r)

(* map() that gates the normal channel by the depth flag *)
MapResultNormalByDepth(f, channel) ==
  LET channelDepth == f.m_depthType = ANARI_FLOAT32
      channelPrimID == f.m_primIDType = ANARI_UINT32
      channelObjID == f.m_objIDType = ANARI_UINT32
      channelInstID == f.m_instIDType = ANARI_UINT32
      channelAlbedo == f.m_albedoType = ANARI_FLOAT32
      channelNormal == f.m_normalType = ANARI_FLOAT32
      r == CASE channel = "channel.color" ->
                  [type |-> f.m_colorType, null |-> f.buf.pixel = 0]
             [] channel = "channel.colorGPU" ->
                  [type |-> f.m_colorType, null |-> f.buf.pixel = 0]
             [] channelDepth /\ channel = "channel.depth" ->
                  [type |-> ANARI_FLOAT32, null |-> f.buf.depth = 0]
             [] channelDepth /\ channel = "channel.depthGPU" ->
                  [type |-> ANARI_FLOAT32, null |-> f.buf.depth = 0]
             [] channelPrimID /\ channel = "channel.primitiveId" ->
                  [type |-> ANARI_UINT32, null |-> f.buf.primID = 0]
             [] channelObjID /\ channel = "channel.objectId" ->
                  [type |-> ANARI_UINT32, null |-> f.buf.objID = 0]
             [] channelInstID /\ channel = "channel.instanceId" ->
                  [type |-> ANARI_UINT32, null |-> f.buf.instID = 0]
             [] channelDepth /\ channel = "channel.normal" ->
                  [type |-> ANARI_FLOAT32_VEC3, null |-> f.buf.normal = 0]
             [] channelAlbedo /\ channel = "channel.albedo" ->
                  [type |-> ANARI_FLOAT32_VEC3, null |-> f.buf.albedo = 0]
             [] OTHER -> [type |-> ANARI_UNKNOWN, null |-> TRUE]
  IN [channel |-> channel,
      requested |-> f.requested[ParamOf(channel)],
      idRequested |-> (f.requested.primitiveId = ANARI_UINT32
                         \/ f.requested.objectId = ANARI_UINT32
                         \/ f.requested.instanceId = ANARI_UINT32),
      null |-> r.null,
      pixelType |-> r.type,
      wroteSize |-> r.type # ANARI_UNKNOWN,
      called |-> channel \in {"channel.color", "channel.colorGPU"}
                   \/ r.type # ANARI_UNKNOWN]

(* Frame::map(): the pointer (null or not), the pixel type and whether      *)
(* width and height were written                                            *)
MapResult(f, channel) ==
  LET channelDepth == f.m_depthType = ANARI_FLOAT32
      channelPrimID == f.m_primIDType = ANARI_UINT32
      channelObjID == f.m_objIDType = ANARI_UINT32
      channelInstID == f.m_instIDType = ANARI_UINT32
      channelAlbedo == f.m_albedoType = ANARI_FLOAT32
      channelNormal == f.m_normalType = ANARI_FLOAT32
      r == CASE channel = "channel.color" ->
                  [type |-> f.m_colorType, null |-> f.buf.pixel = 0]
             [] channel = "channel.colorGPU" ->
                  [type |-> f.m_colorType, null |-> f.buf.pixel = 0]
             [] channelDepth /\ channel = "channel.depth" ->
                  [type |-> ANARI_FLOAT32, null |-> f.buf.depth = 0]
             [] channelDepth /\ channel = "channel.depthGPU" ->
                  [type |-> ANARI_FLOAT32, null |-> f.buf.depth = 0]
             [] channelPrimID /\ channel = "channel.primitiveId" ->
                  [type |-> ANARI_UINT32, null |-> f.buf.primID = 0]
             [] channelObjID /\ channel = "channel.objectId" ->
                  [type |-> ANARI_UINT32, null |-> f.buf.objID = 0]
             [] channelInstID /\ channel = "channel.instanceId" ->
                  [type |-> ANARI_UINT32, null |-> f.buf.instID = 0]
             [] channelNormal /\ channel = "channel.normal" ->
                  [type |-> ANARI_FLOAT32_VEC3, null |-> f.buf.normal = 0]
             [] channelAlbedo /\ channel = "channel.albedo" ->
                  [type |-> ANARI_FLOAT32_VEC3, null |-> f.buf.albedo = 0]
             [] OTHER -> [type |-> ANARI_UNKNOWN, null |-> TRUE]
  IN [channel |-> channel,
      requested |-> f.requested[ParamOf(channel)],
      idRequested |-> (f.requested.primitiveId = ANARI_UINT32
                         \/ f.requested.objectId = ANARI_UINT32
                         \/ f.requested.instanceId = ANARI_UINT32),
      null |-> r.null,
      pixelType |-> r.type,
      wroteSize |-> r.type # ANARI_UNKNOWN,
      called |-> channel \in {"channel.color", "channel.colorGPU"}
                   \/ r.type # ANARI_UNKNOWN]

(* the buffer a channel maps to: its number of elements *)
MappedSize(f, channel) ==
  CASE channel \in {"channel.color", "channel.colorGPU"} -> f.buf.pixel
    [] channel \in {"channel.depth", "channel.depthGPU"} -> f.buf.depth
    [] channel = "channel.primitiveId" -> f.buf.primID
    [] channel = "channel.objectId" -> f.buf.objID
    [] channel = "channel.instanceId" -> f.buf.instID
    [] channel = "channel.normal" -> f.buf.normal
    [] OTHER -> f.buf.albedo

(* map...Buffer() that downloads the buffer on the first map after a render *)
(* only and hands out an empty host copy afterwards                         *)
MapContentsFirstMapOnly(f, smp, channel) ==
  [size |-> IF f.m_frameMappedOnce THEN 0 ELSE MappedSize(f, channel),
   written |-> smp,
   scale |-> IF channel \in {"channel.normal", "channel.albedo"}
               THEN f.m_invFrameID ELSE 1,
   denoised |-> channel \in {"channel.color", "channel.colorGPU"}
                  /\ f.m_denoise]

(* mapColorBuffer() .. mapNormalBuffer(): what the returned pointer holds,  *)
(* as the samples written into the buffer (smp), its number of elements,    *)
(* the weight the accumulated normal and albedo are scaled by, and whether  *)
(* it is the buffer of the denoiser                                         *)
MapContents(f, smp, channel) ==
  [size |-> MappedSize(f, channel),
   written |-> smp,
   scale |-> IF channel \in {"channel.normal", "channel.albedo"}
               THEN f.m_invFrameID ELSE 1,
   denoised |-> channel \in {"channel.color", "channel.colorGPU"}
                  /\ f.m_denoise]

NoContents ==
  [size |-> 0, written |-> [q \in Quadrants |-> 0], scale |-> 0,
   denoised |-> FALSE]

(* cudaEventSynchronize(m_eventEnd) that returns without blocking *)
WaitReturnsAtOnce(fly) == fly

(* Frame::wait(): returns when m_eventEnd has completed; the value is       *)
(* whether work of the frame is still executing when it returns             *)
Wait(fly) == FALSE

(* ---- the scivis raygen program: one primary ray of one pixel sample ---- *)

(* opacities, colours and light terms are fixed-point numbers, UNIT is 1.0 *)
UNIT == 100

(* 0.99f, the opacity at which a ray counts as saturated *)
Saturation == 99

(* 1e30f, the depth of a ray before anything is hit *)
FarDepth == 1000000

Mul(a, b) == (a * b) \div UNIT

(* accumulateValue(a, b, interp): a += b * (1 - interp) *)
accumulateValue(a, b, interp) == a + Mul(b, UNIT - interp)

(* ~0u, every bit set: the value of an ID that was never written *)
NoID == -1

(* the object and instance IDs of the i-th surface along the ray *)
SurfaceObjID(i) == 10 + i

SurfaceInstID(i) == 20 + i

(* the i-th surface along the primary ray is hit at this distance *)
SurfaceT(i) == 2 * i + 1

(* every surface of a stack is given by its material opacity *)
SurfaceStacks ==
  UNION {[1..n -> {0, 50, UNIT}] : n \in 0..MaxSurfaces}

(* the places along the ray where a volume can have a sample: before,     *)
(* at and behind the first surface, and behind the last surface           *)
VolumeDepths == {2, 3, 4, SurfaceT(MaxSurfaces) + 1}

VolumeSamples ==
  [t : VolumeDepths, opacity : {40, UNIT}, color : {60},
   objID : {30}, instID : {40}]

VolumeMarches ==
  {s \in UNION {[1..n -> VolumeSamples] : n \in 0..MaxVolumeSamples} :
     \A i \in 1..Len(s) : \A j \in 1..Len(s) : i < j => s[i].t < s[j].t}

(* what lies between a shade point and the light: the opacities of the    *)
(* surfaces, the opacities of the volumes from the shade point outwards,  *)
(* and the order in which the traversal reports the volume hits           *)
ShadowSegments ==
  { [surfaces |-> <<>>, volumes |-> <<>>, order |-> <<>>],
    [surfaces |-> <<50>>, volumes |-> <<>>, order |-> <<>>],
    [surfaces |-> <<50, 98>>, volumes |-> <<40>>, order |-> <<1>>],
    [surfaces |-> <<50, Saturation>>, volumes |-> <<>>, order |-> <<>>],
    [surfaces |-> <<UNIT>>, volumes |-> <<40>>, order |-> <<1>>],
    [surfaces |-> <<>>, volumes |-> <<40>>, order |-> <<1>>],
    [surfaces |-> <<>>, volumes |-> <<40, 50>>, order |-> <<1, 2>>],
    [surfaces |-> <<>>, volumes |-> <<40, 50>>, order |-> <<2, 1>>],
    [surfaces |-> <<>>, volumes |-> <<Saturation, 50>>, order |-> <<1, 2>>],
    [surfaces |-> <<>>, volumes |-> <<Saturation, 50>>, order |-> <<2, 1>>] }

Backgrounds == {[c |-> 20, a |-> 0], [c |-> 20, a |-> UNIT]}

Scenes ==
  [surfaces : SurfaceStacks, samples : VolumeMarches, bg : Backgrounds,
   shadow : ShadowSegments, baseColor : {80}, radiance : {UNIT},
   cosine : {50}, lightFalloff : {UNIT}, ambient : {10}, tmax : {20, FarDepth}]

(* intersectSurface(): the nearest surface in (lower, upper], 0 on a miss *)
intersectSurface(surfaces, lower, upper) ==
  LET hits == {i \in 1..Len(surfaces) :
                 SurfaceT(i) > lower /\ SurfaceT(i) <= upper}
  IN IF hits = {} THEN 0
     ELSE CHOOSE i \in hits : \A j \in hits : i <= j

(* rayMarchAllVolumes(): front-to-back over the samples in (lower, tfar],  *)
(* until the accumulated opacity saturates                                 *)
RECURSIVE March(_, _, _, _, _)
March(vol, i, lower, tfar, acc) ==
  IF i > Len(vol) \/ acc.opacity >= Saturation
    THEN acc
    ELSE LET s == vol[i]
         IN IF s.t > lower /\ s.t <= tfar
              THEN March(vol, i + 1, lower, tfar,
                     [color |-> accumulateValue(acc.color,
                                  Mul(s.color, s.opacity), acc.opacity),
                      opacity |-> accumulateValue(acc.opacity, s.opacity,
                                    acc.opacity),
                      depth |-> IF s.t < acc.depth THEN s.t ELSE acc.depth,
                      objID |-> IF s.t < acc.depth THEN s.objID
                                ELSE acc.objID,
                      instID |-> IF s.t < acc.depth THEN s.instID
                                 ELSE acc.instID])
              ELSE March(vol, i + 1, lower, tfar, acc)

rayMarchAllVolumes(vol, lower, tfar) ==
  March(vol, 1, lower, tfar,
        [color |-> 0, opacity |-> 0, depth |-> tfar,
         objID |-> NoID, instID |-> NoID])

(* __anyhit__shadow on a surface: TRUE sets occluded and terminates the    *)
(* ray, FALSE ignores the intersection                                     *)
AnyHitShadowSurfaceAnyOpacity(opacity) == opacity > 0

AnyHitShadowSurface(opacity) == opacity >= Saturation

(* isOccluded(): the shadow ray over the surfaces of the segment *)
isOccluded(surfaces) ==
  \E i \in 1..Len(surfaces) : AnyHitShadowSurface(surfaces[i])

(* __anyhit__shadow on the volumes, in the order the traversal reports     *)
(* them: each hit is marched into ra.attenuation; the hit is ignored while *)
(* the attenuation is below 0.99 and accepted otherwise, and an accepted   *)
(* hit at distance k ends the ray there                                    *)
RECURSIVE AnyHitShadowVolumes(_, _, _, _)
AnyHitShadowVolumes(volumes, order, k, ra) ==
  IF k > Len(order)
    THEN ra.attenuation
    ELSE IF order[k] > ra.upper
      THEN AnyHitShadowVolumes(volumes, order, k + 1, ra)
      ELSE LET a == accumulateValue(ra.attenuation, volumes[order[k]],
                                    ra.attenuation)
           IN AnyHitShadowVolumes(volumes, order, k + 1,
                [attenuation |-> a,
                 upper |-> IF a < Saturation THEN ra.upper ELSE order[k]])

(* attenuation(): ra.attenuation after the volume traversal *)
attenuation(shadow) ==
  AnyHitShadowVolumes(shadow.volumes, shadow.order, 1,
                      [attenuation |-> 0, upper |-> Len(shadow.volumes)])

(* computeLightConrib() with one light *)
computeLightConrib(scene) ==
  IF ~isOccluded(scene.shadow.surfaces)
    THEN Mul(Mul(Mul(scene.radiance, scene.cosine), scene.lightFalloff),
             UNIT - attenuation(scene.shadow))
    ELSE 0

(* the test of the while loop of __raygen__ *)
LoopContinuesUntilOpacityExceedsOne(outputOpacity) == outputOpacity <= UNIT

LoopContinues(outputOpacity) == outputOpacity < Saturation

(* const bool volumeFirst = vDepth < surfaceHit.t *)
VolumeFirstOnTie(vDepth, t) == vDepth <= t

VolumeFirst(vDepth, t) == vDepth < t

(* if (firstHit), in both branches of the loop *)
FirstHitAlways(p) == TRUE

FirstHit(p) == p.firstHit

(* ray.t.lower = surfaceHit.t + surfaceHit.epsilon: the next query starts  *)
(* strictly behind the surface hit at distance t                           *)
NextLowerUnchanged(p, t) == p.lower

NextLower(p, t) == t

(* the locals of __raygen__ before the loop *)
RaygenStart(scene) ==
  [scene |-> scene, pc |-> "loop", lower |-> 0,
   outputColor |-> 0, outputOpacity |-> 0, outputNormal |-> <<"ray.dir", 0>>,
   depth |-> FarDepth, primID |-> NoID, objID |-> NoID, instID |-> NoID,
   firstHit |-> TRUE,
   iterations |-> 0, queries |-> 0, evaluated |-> <<>>, backgrounds |-> 0,
   miss |-> [taken |-> FALSE, iteration |-> 0, color |-> 0, opacity |-> 0,
             outputColor |-> 0, outputOpacity |-> 0],
   light |-> 0, results |-> 0]

(* one iteration of the loop when intersectSurface() found surface i *)
SurfaceBranch(p, i) ==
  LET scene == p.scene
      t == SurfaceT(i)
      v == rayMarchAllVolumes(scene.samples, p.lower, t)
      volumeFirst == VolumeFirst(v.depth, t)
      light == computeLightConrib(scene)
      color1 == accumulateValue(v.color,
                  Mul(scene.baseColor,
                      light + Mul(scene.ambient, scene.lightFalloff)),
                  v.opacity)
      opacity1 == accumulateValue(v.opacity, scene.surfaces[i], v.opacity)
      color2 == Mul(color1, opacity1)
      ids == IF ~FirstHit(p)
               THEN [outputNormal |-> p.outputNormal, depth |-> p.depth,
                     primID |-> p.primID, objID |-> p.objID,
                     instID |-> p.instID]
               ELSE IF volumeFirst
                 THEN [outputNormal |-> <<"-ray.dir", 0>>, depth |-> v.depth,
                       primID |-> 0, objID |-> v.objID,
                       instID |-> v.instID]
                 ELSE [outputNormal |-> <<"Ng", i>>, depth |-> t,
                       primID |-> i, objID |-> SurfaceObjID(i),
                       instID |-> SurfaceInstID(i)]
  IN [p EXCEPT !.outputNormal = ids.outputNormal,
               !.depth = ids.depth,
               !.primID = ids.primID,
               !.objID = ids.objID,
               !.instID = ids.instID,
               !.firstHit = FALSE,
               !.outputColor = accumulateValue(p.outputColor, color2,
                                               p.outputOpacity),
               !.outputOpacity = accumulateValue(p.outputOpacity, opacity1,
                                                 p.outputOpacity),
               !.lower = NextLower(p, t),
               !.iterations = @ + 1,
               !.queries = @ + 1,
               !.evaluated = Append(@, i),
               !.light = light]

(* the miss branch with the background composited in front of the volume *)
MissBranchBackgroundFirst(p) ==
  LET scene == p.scene
      v == rayMarchAllVolumes(scene.samples, p.lower, scene.tmax)
      color2 == accumulateValue(scene.bg.c, Mul(v.color, v.opacity),
                                scene.bg.a)
      opacity2 == accumulateValue(scene.bg.a, v.opacity, scene.bg.a)
  IN [p EXCEPT !.pc = "break",
               !.outputColor = accumulateValue(p.outputColor, color2,
                                               p.outputOpacity),
               !.outputOpacity = accumulateValue(p.outputOpacity, opacity2,
                                                 p.outputOpacity),
               !.iterations = @ + 1,
               !.queries = @ + 1,
               !.backgrounds = @ + 1,
               !.miss = [taken |-> TRUE, iteration |-> p.iterations + 1,
                         color |-> v.color, opacity |-> v.opacity,
                         outputColor |-> p.outputColor,
                         outputOpacity |-> p.outputOpacity]]

(* one iteration of the loop when intersectSurface() found nothing *)
MissBranch(p) ==
  LET scene == p.scene
      v == rayMarchAllVolumes(scene.samples, p.lower, scene.tmax)
      color1 == Mul(v.color, v.opacity)
      color2 == accumulateValue(color1, scene.bg.c, v.opacity)
      opacity2 == accumulateValue(v.opacity, scene.bg.a, v.opacity)
  IN [p EXCEPT !.pc = "break",
               !.depth = IF FirstHit(p) /\ v.depth < @ THEN v.depth ELSE @,
               !.primID = IF FirstHit(p) THEN 0 ELSE @,
               !.objID = IF FirstHit(p) THEN v.objID ELSE @,
               !.instID = IF FirstHit(p) THEN v.instID ELSE @,
               !.outputColor = accumulateValue(p.outputColor, color2,
                                               p.outputOpacity),
               !.outputOpacity = accumulateValue(p.outputOpacity, opacity2,
                                                 p.outputOpacity),
               !.iterations = @ + 1,
               !.queries = @ + 1,
               !.backgrounds = @ + 1,
               !.miss = [taken |-> TRUE, iteration |-> p.iterations + 1,
                         color |-> v.color, opacity |-> v.opacity,
                         outputColor |-> p.outputColor,
                         outputOpacity |-> p.outputOpacity]]

(* no ray is being traced *)
IdlePixel == [pc |-> "idle"]

(* ---- Quad geometry ---- *)

(* an Array1D parameter that was not set *)
NullVertexArray == [null |-> TRUE, size |-> 0]

NullIndexArray == [null |-> TRUE, data |-> <<>>]

(* vertex.position arrays: the vertices are numbered from 0, the array is  *)
(* given by its size, a multiple of 4 or not                               *)
VertexArrays ==
  {NullVertexArray}
    \cup {[null |-> FALSE, size |-> 4 * k] : k \in 1..MaxQuads}
    \cup {[null |-> FALSE, size |-> 4 * k + 2] : k \in 1..MaxQuads}

(* primitive.index arrays: one uvec4 per quad *)
IndexArrays ==
  {NullIndexArray}
    \cup {[null |-> FALSE, data |-> d] :
            d \in UNION {[1..n -> {<<0, 1, 2, 3>>, <<5, 4, 1, 0>>}] :
                           n \in 1..MaxQuads}}

(* Quad::generateIndices(): the contents of m_indices *)
GenerateIndicesFan(index, vertex) ==
  LET numQuad == IF ~index.null THEN Len(index.data) ELSE vertex.size \div 4
      idx(i) == IF ~index.null THEN index.data[i + 1]
                ELSE <<4 * i, 4 * i + 1, 4 * i + 2, 4 * i + 3>>
  IN [k \in 1..(2 * numQuad) |->
        LET i == (k - 1) \div 2
        IN IF (k - 1) % 2 = 0
             THEN <<idx(i)[1], idx(i)[2], idx(i)[3]>>
             ELSE <<idx(i)[1], idx(i)[3], idx(i)[4]>>]

GenerateIndices(index, vertex) ==
  LET numQuad == IF ~index.null THEN Len(index.data) ELSE vertex.size \div 4
      idx(i) == IF ~index.null THEN index.data[i + 1]
                ELSE <<4 * i, 4 * i + 1, 4 * i + 2, 4 * i + 3>>
  IN [k \in 1..(2 * numQuad) |->
        LET i == (k - 1) \div 2
        IN IF (k - 1) % 2 = 0
             THEN <<idx(i)[1], idx(i)[2], idx(i)[4]>>
             ELSE <<idx(i)[3], idx(i)[4], idx(i)[2]>>]

(* Quad::isValid() *)
QuadIsValid(q) == ~q.m_vertex.null

(* Quad::commit(): TRUE when it returns before generateIndices() *)
QuadCommitReports(index, vertex) ==
  IF vertex.null
    THEN "missing vertex.position"
    ELSE IF index.null /\ vertex.size % 4 # 0
      THEN "non-multiple of 4"
      ELSE "none"

NoBuildInput ==
  [built |-> FALSE, numVertices |-> 0, numIndexTriplets |-> 0,
   stale |-> FALSE]

(* the Quad as constructed *)
InitQuad ==
  [m_vertex |-> NullVertexArray, m_index |-> NullIndexArray,
   m_indices |-> <<>>, m_vertexBufferPtr |-> NullVertexArray,
   reported |-> "none", commits |-> 0, generated |-> 0,
   buildInput |-> NoBuildInput]

(* ---- TransferFunction1D volume ---- *)

(* an Array1D parameter that was not set, and one holding data *)
NullArray == [null |-> TRUE, data |-> <<>>]

Array(d) == [null |-> FALSE, data |-> d]

(* m_tfDim, the number of entries of the discretized transfer function *)
TFDim == 3

(* the value range of the volumes, and of the two cells of the field's   *)
(* uniform grid                                                           *)
ValueRange == [lower |-> 0, upper |-> 4]

GridCells == <<[lower |-> 0, upper |-> 2], [lower |-> 4, upper |-> 4]>>

Volumes == {"A", "B"}

(* the parameters of a volume at a commit *)
TFParams(color, colorPosition, opacity, opacityPosition, field) ==
  [color |-> color, colorPosition |-> colorPosition, opacity |-> opacity,
   opacityPosition |-> opacityPosition, field |-> field]

TFConfigs ==
  { TFParams(Array(<<10, 90>>), NullArray, Array(<<0, 100>>), NullArray,
             TRUE),
    TFParams(Array(<<10, 90>>), NullArray, Array(<<100, 0>>), NullArray,
             TRUE),
    TFParams(Array(<<10, 90>>), Array(<<0, 4>>), Array(<<0, 100>>),
             Array(<<0, 2>>), TRUE),
    TFParams(Array(<<10, 90>>), Array(<<0, 4>>), Array(<<0, 100>>),
             NullArray, TRUE),
    TFParams(Array(<<10, 90>>), NullArray, Array(<<0, 100>>),
             Array(<<0, 2>>), TRUE),
    TFParams(Array(<<10, 90>>), NullArray, Array(<<0, 100>>), NullArray,
             FALSE),
    TFParams(NullArray, NullArray, Array(<<0, 100>>), NullArray, TRUE),
    TFParams(Array(<<10, 90>>), NullArray, NullArray, NullArray, TRUE),
    TFParams(Array(<<10, 90>>), Array(<<0, 2, 4>>), Array(<<0, 100>>),
             NullArray, TRUE),
    TFParams(Array(<<10, 90>>), NullArray, Array(<<0, 100>>),
             Array(<<0, 2, 4>>), TRUE) }

(* what a read through the null opacity.position pointer can give when    *)
(* the process survives it                                                *)
GarbageSpans == {<<0, 0>>, <<0, 4>>, <<2, 4>>}

(* generateLinearPositions(n, valueRange) *)
GenerateLinearPositions(n, range) ==
  [k \in 1..n |->
     IF n = 1 THEN range.lower
     ELSE range.lower + ((k - 1) * (range.upper - range.lower)) \div (n - 1)]

(* getInterpolatedValue(): piecewise linear through (positions, values),  *)
(* clamped at both ends, evaluated at x                                   *)
GetInterpolatedValue(values, positions, x) ==
  LET n == Len(values)
  IN IF x <= positions[1] THEN values[1]
     ELSE IF x >= positions[n] THEN values[n]
     ELSE LET k == CHOOSE j \in 1..(n - 1) :
                     positions[j] <= x /\ x < positions[j + 1]
          IN values[k]
               + ((values[k + 1] - values[k]) * (x - positions[k]))
                   \div (positions[k + 1] - positions[k])

(* the value at which entry i of the discretized function is evaluated *)
TFSamplePosition(i) ==
  ValueRange.lower
    + (i * (ValueRange.upper - ValueRange.lower)) \div (TFDim - 1)

(* the opacities of a table sampled from an opacity array at positions *)
TFOpacities(opacity, positions) ==
  [k \in 1..TFDim |->
     GetInterpolatedValue(opacity, positions, TFSamplePosition(k - 1))]

(* TransferFunction1D::discritizeTFData(): the positions it interpolates  *)
(* the opacity at; garbage is what the read through a null                *)
(* opacity.position gives                                                 *)
TFOpacityPositionsUsed(params, garbage) ==
  IF ~params.colorPosition.null
    THEN IF ~params.opacityPosition.null
           THEN params.opacityPosition.data
           ELSE garbage
    ELSE GenerateLinearPositions(Len(params.opacity.data), ValueRange)

(* TransferFunction1D::commit(): the message of a commit that returns     *)
(* before the transfer function is built                                  *)
TFCommitReports(params) ==
  IF ~params.field THEN "missing field"
  ELSE IF params.color.null THEN "missing color"
  ELSE IF params.opacity.null THEN "missing opacity"
  ELSE IF ~params.colorPosition.null
            /\ Len(params.color.data) # Len(params.colorPosition.data)
    THEN "color sizes differ"
  ELSE IF ~params.opacityPosition.null
            /\ Len(params.opacity.data) # Len(params.opacityPosition.data)
    THEN "opacity sizes differ"
  ELSE "none"

(* TransferFunction1D::isValid(); the field of the model is always valid *)
TFIsValid(v) == ~v.params.color.null /\ ~v.params.opacity.null /\ v.params.field

(* computeMaxOpacities(): per cell of the grid, the largest opacity of    *)
(* the table over the value range of the cell                             *)
ComputeMaxOpacities(m_tf) ==
  [c \in 1..Len(GridCells) |->
     LET inside == {k \in 1..TFDim :
                      /\ TFSamplePosition(k - 1) >= GridCells[c].lower
                      /\ TFSamplePosition(k - 1) <= GridCells[c].upper}
     IN CHOOSE o \in {m_tf[k] : k \in inside} :
          \A k \in inside : m_tf[k] <= o]

(* a volume as constructed *)
InitVolume ==
  [params |-> TFParams(NullArray, NullArray, NullArray, NullArray, FALSE),
   m_textureObject |-> 0, m_tf |-> <<>>, reported |-> "none",
   committed |-> 0, derefNull |-> FALSE]

InitTF ==
  [volume |-> [v \in Volumes |-> InitVolume],
   maxOpacities |-> [c \in 1..Len(GridCells) |-> 0],
   commits |-> 0, crashed |-> FALSE]

(* ---- initial state: the objects as constructed, nothing committed ---- *)

InitFrame ==
  [m_valid |-> FALSE, m_renderer |-> "missing", m_camera |-> "missing",
   m_world |-> "missing", m_denoise |-> FALSE, m_nextFrameReset |-> FALSE,
   m_lastCommitOccured |-> 0, m_lastUploadOccured |-> 0,
   m_frameChanged |-> FALSE, m_frameMappedOnce |-> FALSE, m_invFrameID |-> 0,
   m_colorType |-> ANARI_UNKNOWN, m_depthType |-> ANARI_UNKNOWN,
   m_primIDType |-> ANARI_UNKNOWN, m_objIDType |-> ANARI_UNKNOWN,
   m_instIDType |-> ANARI_UNKNOWN, m_albedoType |-> ANARI_UNKNOWN,
   m_normalType |-> ANARI_UNKNOWN,
   fb |-> [frameID |-> 0, checkerboardID |-> 0, invFrameID |-> 0, size |-> 0],
   buf |-> [accumColor |-> 0, pixel |-> 0, depth |-> 0, primID |-> 0,
            objID |-> 0, instID |-> 0, albedo |-> 0, normal |-> 0],
   requested |-> [NoChannels EXCEPT !.color = ANARI_UNKNOWN]]

(* the record of the last renderFrame call that found the frame valid: what *)
(* it observed and which branch it took (n: the number of such calls;       *)
(* clean: no flush took a time stamp after the first of them; since: a      *)
(* flush took a time stamp after the call returned; ever: some call of the  *)
(* frame has launched; overlap: work of the frame was still executing when  *)
(* the call went past its wait(); steps: the steps of the call in their     *)
(* order; bvhStale: the call went on with acceleration structures older     *)
(* than a flush; toggled: the denoise mode of the renderer differed from    *)
(* the one the frame held; recommits: the commits the call made itself)     *)
NoCall ==
  [n |-> 0, valid |-> FALSE, flushed |-> FALSE, clean |-> TRUE,
   first |-> FALSE, pending |-> FALSE, limit |-> 0, cb |-> FALSE, spp |-> 0,
   launched |-> FALSE, reset |-> FALSE,
   before |-> [frameID |-> 0, checkerboardID |-> 0, invFrameID |-> 0,
               m_invFrameID |-> 0],
   prevLaunched |-> FALSE, prevFlushed |-> FALSE,
   asked |-> FALSE, answer |-> FALSE,
   since |-> FALSE, ever |-> FALSE, overlap |-> FALSE,
   steps |-> <<>>, bvhStale |-> FALSE,
   toggled |-> FALSE, recommits |-> 0]

NoQuery == [op |-> "none", ready |-> TRUE, result |-> FALSE]

(* the record of a map call: MapResult and, with it, the contents and the   *)
(* width * height it returned, whether work of the frame was executing when *)
(* it was called (waited) and when it read the buffers (unfinished),        *)
(* whether no renderFrame call (fresh) and no commit flush (unflushed)      *)
(* followed it yet, and how it compares with the map call before it (again: *)
(* same channel and no renderFrame call between the two; flushed: a commit  *)
(* flush between the two; same: identical results)                          *)
NoMap ==
  [channel |-> "none", requested |-> ANARI_UNKNOWN, idRequested |-> FALSE,
   null |-> TRUE, pixelType |-> ANARI_UNKNOWN,
   wroteSize |-> FALSE, called |-> FALSE,
   contents |-> NoContents, extent |-> 0,
   waited |-> FALSE, unfinished |-> FALSE,
   fresh |-> FALSE, unflushed |-> FALSE,
   again |-> FALSE, flushed |-> FALSE, same |-> TRUE]

Init ==
  /\ state = [commitBuffer |-> {}, commitLastFlush |-> 0,
              uploadPending |-> FALSE, uploadLastFlush |-> 0]
  /\ renderer = DefaultRenderer
  /\ rparams = DefaultRenderer
  /\ fparams = DefaultFrameParams
  /\ frame = InitFrame
  /\ inFlight = FALSE
  /\ crashed = FALSE
  /\ samples = [q \in Quadrants |-> 0]
  /\ last = NoCall
  /\ api = NoQuery
  /\ mapped = NoMap
  /\ used = [commits |-> 0, uploads |-> 0]
  /\ px = IdlePixel
  /\ quad = InitQuad
  /\ tf = InitTF

(* ---- operations ---- *)

(* the frame object can be called: the process has not crashed and the      *)
(* frame has not been released                                              *)
Live == ~crashed /\ api.op # "release"

(* the effect of commitBufferFlush() on the objects in the buffer *)
FrameAfterFlush(st, f, p) ==
  IF "frame" \in st.commitBuffer THEN FrameCommit(f, p) ELSE f

RendererAfterFlush(st, r, rp) ==
  IF "renderer" \in st.commitBuffer THEN rp ELSE r

Stamped(st, st2) ==
  st2.commitLastFlush # st.commitLastFlush
    \/ st2.uploadLastFlush # st.uploadLastFlush

(* the record of the last map call after a renderFrame call, and after a   *)
(* call that may have flushed the commit buffer                             *)
MapThenRender(m) == [m EXCEPT !.fresh = FALSE, !.unflushed = FALSE]

MapThenFlush(m, st, st2) ==
  IF st2.commitLastFlush # st.commitLastFlush
    THEN [m EXCEPT !.unflushed = FALSE] ELSE m

Count(kind) == [used EXCEPT ![kind] = @ + 1]

(* anariCommitParameters: the object is put into the deferred commit buffer *)
CommitObject(obj) ==
  /\ Live
  /\ used.commits < MaxCommits
  /\ state' = [state EXCEPT !.commitBuffer = @ \cup {obj}]
  /\ api' = NoQuery
  /\ used' = Count("commits")
  /\ UNCHANGED <<px, quad, tf, renderer, frame, inFlight, crashed, samples, last, mapped>>

(* anariSetParameter calls on the frame followed by its commit *)
CommitFrame(cfg) ==
  CommitObject("frame") /\ fparams' = cfg /\ UNCHANGED rparams

CommitScene == CommitObject("scene") /\ UNCHANGED <<rparams, fparams>>

(* anariSetParameter calls on the renderer followed by its commit *)
CommitRenderer(cfg) ==
  CommitObject("renderer") /\ rparams' = cfg /\ UNCHANGED fparams

(* an array is unmapped: its upload is deferred to the upload buffer *)
ArrayUpload ==
  /\ Live
  /\ used.uploads < MaxUploads
  /\ ~state.uploadPending
  /\ state' = [state EXCEPT !.uploadPending = TRUE]
  /\ api' = NoQuery
  /\ used' = Count("uploads")
  /\ UNCHANGED <<px, quad, tf, renderer, rparams, fparams, frame, inFlight, crashed,
                 samples, last, mapped>>

(* the stream reaches m_eventEnd *)
Complete ==
  /\ Live
  /\ inFlight
  /\ inFlight' = FALSE
  /\ UNCHANGED <<px, quad, tf, state, renderer, rparams, fparams, frame, crashed, samples,
                 last, api, mapped, used>>

(* the denoise mode taken from the renderer without a commit of the frame *)
DenoiseUpdateWithoutCommit(f, r, p) ==
  [f |-> [f EXCEPT !.m_denoise = r.denoise], recommits |-> 0]

(* Frame::renderFrame(): m_denoise follows the renderer; when it changes    *)
(* the frame commits itself (recommits: the number of these commits)        *)
DenoiseUpdate(f, r, p) ==
  LET wasDenoising == f.m_denoise
      g == [f EXCEPT !.m_denoise = r.denoise]
  IN IF g.m_denoise # wasDenoising
       THEN [f |-> FrameCommit(g, p), recommits |-> 1]
       ELSE [f |-> g, recommits |-> 0]

(* "update scene" with the acceleration structures rebuilt before the      *)
(* flushes                                                                  *)
UpdateSceneRebuildsFirst(st) ==
  [st |-> UploadBufferFlush(CommitBufferFlush(st)),
   steps |-> <<"rebuild BVHs", "flush commits", "flush array uploads">>,
   bvhStale |-> st.commitBuffer # {} \/ st.uploadPending]

(* "update scene" in Frame::renderFrame(): the commit buffer is flushed,    *)
(* then the upload buffer, then the acceleration structures are rebuilt;    *)
(* bvhStale: a flush came after the rebuild                                 *)
UpdateScene(st) ==
  [st |-> UploadBufferFlush(CommitBufferFlush(st)),
   steps |-> <<"flush commits", "flush array uploads", "rebuild BVHs">>,
   bvhStale |-> FALSE]

(* the test of the sample limit without the test of the pending reset *)
SampleLimitReachedIgnoresReset(f, sampleLimit) ==
  sampleLimit > 0 /\ f.fb.frameID >= sampleLimit

(* the test of the sample limit in Frame::renderFrame() *)
SampleLimitReached(f, sampleLimit) ==
  ~f.m_nextFrameReset /\ sampleLimit > 0 /\ f.fb.frameID >= sampleLimit

(* Frame::renderFrame() *)
RenderFrame ==
  /\ Live
  /\ frame.fb.frameID < MaxFrameID
  /\ last.n < MaxCalls
  /\ LET fly == Wait(inFlight)
         upd == UpdateScene(state)
         f1 == FrameAfterFlush(state, frame, fparams)
         r1 == RendererAfterFlush(state, renderer, rparams)
         st2 == upd.st
         flushed == last.since \/ Stamped(state, st2)
         den == DenoiseUpdate(f1, r1, fparams)
         f3 == den.f
         f4 == [f3 EXCEPT !.m_frameMappedOnce = FALSE]
         f5 == CheckAccumulationReset(f4, st2)
         sampleLimit == r1.sampleLimit
         spp == Max(r1.spp, 1)
         res == RenderLoop(spp, f5, samples, r1)
         clean == IF last.n = 0 THEN TRUE ELSE last.clean /\ ~flushed
         call == [NoCall EXCEPT
                    !.n = last.n + 1,
                    !.flushed = flushed,
                    !.clean = clean,
                    !.prevLaunched = last.launched,
                    !.prevFlushed = last.flushed,
                    !.before = [frameID |-> frame.fb.frameID,
                                checkerboardID |-> frame.fb.checkerboardID,
                                invFrameID |-> frame.fb.invFrameID,
                                m_invFrameID |-> frame.m_invFrameID],
                    !.asked = (api.op = "nextFrameReset" /\ api.ready),
                    !.answer = api.result,
                    !.ever = last.ever,
                    !.overlap = fly]
         skipped == [last EXCEPT !.since = @ \/ Stamped(state, st2)]
         seen == [call EXCEPT !.valid = TRUE,
                              !.limit = sampleLimit,
                              !.cb = Checkerboarding(f5, r1),
                              !.spp = spp,
                              !.pending = f5.m_nextFrameReset,
                              !.steps = upd.steps
                                          \o <<"checkAccumulationReset">>,
                              !.bvhStale = upd.bvhStale,
                              !.toggled = r1.denoise # f1.m_denoise,
                              !.recommits = den.recommits]
     IN /\ state' = st2
        /\ renderer' = r1
        /\ api' = NoQuery
        /\ mapped' = MapThenRender(mapped)
        /\ UNCHANGED <<px, quad, tf, rparams, fparams, used>>
        /\ IF f1.m_world = "missing"
             THEN \* m_world->rebuildBVHs() on a null pointer: undefined
                  \* behaviour, the process crashes or the call goes on
                  /\ crashed' \in BOOLEAN
                  /\ frame' = f1
                  /\ inFlight' = fly
                  /\ last' = skipped
                  /\ UNCHANGED samples
             ELSE IF ~f1.m_valid
             THEN /\ frame' = f1
                  /\ inFlight' = fly
                  /\ last' = skipped
                  /\ UNCHANGED <<crashed, samples>>
             ELSE IF SampleLimitReached(f5, sampleLimit)
             THEN /\ frame' = f5
                  /\ inFlight' = fly
                  /\ last' = seen
                  /\ UNCHANGED <<crashed, samples>>
             ELSE /\ frame' = res.f
                  /\ samples' = res.s
                  /\ inFlight' = TRUE
                  /\ last' = [seen EXCEPT !.first = ~last.ever,
                                          !.steps = @ \o [i \in 1 .. spp |->
                                                            "optixLaunch"],
                                          !.launched = TRUE,
                                          !.reset = f5.m_nextFrameReset,
                                          !.ever = TRUE]
                  /\ UNCHANGED crashed

(* renderFrame() of another frame object of the same device: it flushes    *)
(* the commit buffer and the upload buffer of the shared device state      *)
OtherFrameRender ==
  /\ Live
  /\ state.commitBuffer # {} \/ state.uploadPending
  /\ LET st2 == UploadBufferFlush(CommitBufferFlush(state))
     IN /\ state' = st2
        /\ frame' = FrameAfterFlush(state, frame, fparams)
        /\ renderer' = RendererAfterFlush(state, renderer, rparams)
        /\ last' = [last EXCEPT !.since = TRUE]
        /\ mapped' = MapThenFlush(mapped, state, st2)
  /\ api' = NoQuery
  /\ UNCHANGED <<px, quad, tf, rparams, fparams, inFlight, crashed, samples, used>>

(* Frame::getProperty("nextFrameReset", ANARI_BOOL, ptr, flags) *)
GetNextFrameReset(wait) ==
  /\ Live
  /\ LET fly == IF wait THEN FALSE ELSE inFlight
         ready == ~fly
         st1 == IF ready THEN CommitBufferFlush(state) ELSE state
         f1 == IF ready THEN FrameAfterFlush(state, frame, fparams) ELSE frame
         r1 == IF ready THEN RendererAfterFlush(state, renderer, rparams)
               ELSE renderer
         f2 == CheckAccumulationReset(f1, st1)
     IN /\ inFlight' = fly
        /\ state' = st1
        /\ frame' = f2
        /\ renderer' = r1
        /\ last' = [last EXCEPT !.since = @ \/ Stamped(state, st1)]
        /\ api' = [op |-> "nextFrameReset", ready |-> ready,
                   result |-> f2.m_nextFrameReset]
        /\ mapped' = MapThenFlush(mapped, state, st1)
  /\ UNCHANGED <<px, quad, tf, rparams, fparams, crashed, samples, used>>

(* Frame::getProperty("numSamples", ANARI_INT32, ptr, flags) *)
NumSamples(f) == f.fb.frameID

GetNumSamples(wait) ==
  /\ Live
  /\ inFlight' = IF wait THEN FALSE ELSE inFlight
  /\ api' = NoQuery
  /\ UNCHANGED <<px, quad, tf, state, renderer, rparams, fparams, frame, crashed, samples,
                 last, mapped, used>>

(* Frame::map(channel, width, height, pixelType) *)
Map(channel) ==
  /\ Live
  /\ LET fly == Wait(inFlight)
         m == MapResult(frame, channel)
         contents == IF m.null THEN NoContents
                     ELSE MapContents(frame, samples, channel)
         extent == IF m.wroteSize THEN frame.fb.size ELSE 0
         again == mapped.channel = channel /\ mapped.fresh
     IN /\ mapped' =
             [channel |-> m.channel, requested |-> m.requested,
              idRequested |-> m.idRequested, null |-> m.null,
              pixelType |-> m.pixelType, wroteSize |-> m.wroteSize,
              called |-> m.called,
              contents |-> contents, extent |-> extent,
              waited |-> inFlight, unfinished |-> fly,
              fresh |-> TRUE, unflushed |-> TRUE,
              again |-> again,
              flushed |-> again /\ ~mapped.unflushed,
              same |-> again =>
                        /\ mapped.null = m.null
                        /\ mapped.pixelType = m.pixelType
                        /\ mapped.wroteSize = m.wroteSize
                        /\ mapped.extent = extent
                        /\ mapped.contents = contents]
        /\ frame' = IF m.called THEN [frame EXCEPT !.m_frameMappedOnce = TRUE]
                    ELSE frame
        /\ inFlight' = fly
  /\ api' = NoQuery
  /\ UNCHANGED <<px, quad, tf, state, renderer, rparams, fparams, crashed, samples, last,
                 used>>

(* Frame::~Frame(): the last reference is released; ready: m_eventEnd had   *)
(* completed when the events were destroyed; result: the call had to wait   *)
Release ==
  /\ Live
  /\ LET fly == Wait(inFlight)
     IN /\ inFlight' = fly
        /\ api' = [op |-> "release", ready |-> ~fly, result |-> inFlight]
  /\ UNCHANGED <<px, quad, tf, state, renderer, rparams, fparams, frame, crashed, samples,
                 last, mapped, used>>

(* ---- the Quad geometry: commits and BVH build inputs ---- *)

(* the parameters are set and Quad::commit() runs *)
QuadCommit(index, vertex) ==
  /\ quad.commits < MaxQuadCommits
  /\ LET problem == QuadCommitReports(index, vertex)
     IN quad' = IF problem # "none"
                  THEN [quad EXCEPT !.m_index = index,
                                    !.m_vertex = vertex,
                                    !.reported = problem,
                                    !.commits = @ + 1,
                                    !.buildInput = NoBuildInput]
                  ELSE [quad EXCEPT !.m_index = index,
                                    !.m_vertex = vertex,
                                    !.m_indices =
                                       GenerateIndices(index, vertex),
                                    !.m_vertexBufferPtr = vertex,
                                    !.reported = "none",
                                    !.commits = @ + 1,
                                    !.generated = quad.commits + 1,
                                    !.buildInput = NoBuildInput]
  /\ UNCHANGED <<frameVars, px, tf>>

(* Quad::populateBuildInput(), called for every valid geometry *)
QuadPopulateBuildInput ==
  /\ QuadIsValid(quad)
  /\ ~quad.buildInput.built
  /\ quad' = [quad EXCEPT !.buildInput =
                [built |-> TRUE,
                 numVertices |-> quad.m_vertex.size,
                 numIndexTriplets |-> Len(quad.m_indices),
                 stale |-> quad.generated # quad.commits]]
  /\ UNCHANGED <<frameVars, px, tf>>

(* ---- the TransferFunction1D volumes ---- *)

(* the parameters of volume v are set and TransferFunction1D::commit()    *)
(* runs: cleanup() destroys the texture, the parameters are read, and     *)
(* unless a check returns the table is built, a new texture is created    *)
(* and the max-opacity grid of the field is recomputed from it            *)
TFCommit(v, params) ==
  /\ ~tf.crashed
  /\ tf.commits < MaxVolumeCommits
  /\ LET problem == TFCommitReports(params)
         id == tf.commits + 1
         deref == ~params.colorPosition.null /\ params.opacityPosition.null
     IN IF problem # "none"
          THEN tf' = [tf EXCEPT !.commits = id,
                                !.volume[v] =
                                   [@ EXCEPT !.params = params,
                                             !.m_textureObject = 0,
                                             !.reported = problem,
                                             !.committed = id,
                                             !.derefNull = FALSE]]
          ELSE \E garbage \in GarbageSpans : \E survives \in BOOLEAN :
                 LET m_tf == TFOpacities(params.opacity.data,
                               TFOpacityPositionsUsed(params, garbage))
                 IN tf' = IF deref /\ ~survives
                            THEN [tf EXCEPT !.commits = id,
                                            !.crashed = TRUE,
                                            !.volume[v] =
                                               [@ EXCEPT
                                                  !.params = params,
                                                  !.m_textureObject = 0,
                                                  !.reported = "none",
                                                  !.committed = id,
                                                  !.derefNull = TRUE]]
                            ELSE [tf EXCEPT !.commits = id,
                                            !.maxOpacities =
                                               ComputeMaxOpacities(m_tf),
                                            !.volume[v] =
                                               [@ EXCEPT
                                                  !.params = params,
                                                  !.m_textureObject = id,
                                                  !.m_tf = m_tf,
                                                  !.reported = "none",
                                                  !.committed = id,
                                                  !.derefNull = deref]]
  /\ UNCHANGED <<frameVars, px, quad>>

(* ---- the raygen program, one loop iteration at a time ---- *)

(* the body of while (outputOpacity < 0.99f) *)
RaygenIteration ==
  /\ px.pc = "loop"
  /\ LoopContinues(px.outputOpacity)
  /\ LET i == intersectSurface(px.scene.surfaces, px.lower, px.scene.tmax)
     IN px' = IF i # 0 THEN SurfaceBranch(px, i) ELSE MissBranch(px)
  /\ UNCHANGED <<frameVars, quad, tf>>

(* the loop is left, by its test or by break: accumResults() *)
RaygenAccumResults ==
  /\ \/ px.pc = "break"
     \/ px.pc = "loop" /\ ~LoopContinues(px.outputOpacity)
  /\ px' = [px EXCEPT !.pc = "done", !.results = @ + 1]
  /\ UNCHANGED <<frameVars, quad, tf>>

(* the frame driven by commits, uploads, queries and renderFrame calls *)
Next ==
  \/ \E cfg \in FrameConfigs : CommitFrame(cfg)
  \/ CommitScene
  \/ \E cfg \in RendererConfigs : CommitRenderer(cfg)
  \/ ArrayUpload
  \/ Complete
  \/ RenderFrame
  \/ OtherFrameRender
  \/ \E wait \in BOOLEAN : GetNextFrameReset(wait)
  \/ \E wait \in BOOLEAN : GetNumSamples(wait)

Spec == Init /\ [][Next]_vars

(* the frame driven by commits, uploads and renderFrame calls only *)
NextRender ==
  \/ \E cfg \in FrameConfigs : CommitFrame(cfg)
  \/ CommitScene
  \/ \E cfg \in RendererConfigs : CommitRenderer(cfg)
  \/ ArrayUpload
  \/ Complete
  \/ RenderFrame
  \/ OtherFrameRender

SpecRender == Init /\ [][NextRender]_vars

(* the channel mapper: frame commits, renderFrame calls and map calls *)
NextMap ==
  \/ \E cfg \in MapFrameConfigs : CommitFrame(cfg)
  \/ Complete
  \/ RenderFrame
  \/ \E channel \in Channels : Map(channel)

SpecMap == Init /\ [][NextMap]_vars

(* the frame with commits that leave it incomplete or invalid *)
NextInvalid ==
  \/ \E cfg \in InvalidFrameConfigs : CommitFrame(cfg)
  \/ \E cfg \in RendererConfigs : CommitRenderer(cfg)
  \/ ArrayUpload
  \/ Complete
  \/ RenderFrame

SpecInvalid == Init /\ [][NextInvalid]_vars

(* the frame with a renderer that switches the denoiser on and off *)
NextDenoise ==
  \/ CommitFrame(FramePlain)
  \/ \E cfg \in DenoiseRendererConfigs : CommitRenderer(cfg)
  \/ ArrayUpload
  \/ Complete
  \/ RenderFrame
  \/ OtherFrameRender
  \/ \E wait \in BOOLEAN : GetNextFrameReset(wait)

SpecDenoise == Init /\ [][NextDenoise]_vars

(* the calls that wait for the render in flight: renderFrame, map, release *)
NextSync ==
  \/ CommitFrame(FrameDepthNormalAlbedo)
  \/ \E cfg \in RendererConfigs : CommitRenderer(cfg)
  \/ Complete
  \/ RenderFrame
  \/ \E channel \in Channels : Map(channel)
  \/ Release

SpecSync == Init /\ [][NextSync]_vars

(* the channel mapper with the calls that flush commits without rendering *)
NextRemap ==
  \/ \E cfg \in RemapFrameConfigs : CommitFrame(cfg)
  \/ RenderFrame
  \/ \E wait \in BOOLEAN : GetNextFrameReset(wait)
  \/ \E channel \in Channels : Map(channel)

SpecRemap == Init /\ [][NextRemap]_vars

(* one primary ray through every scene of Scenes *)
InitRaygen ==
  /\ state = [commitBuffer |-> {}, commitLastFlush |-> 0,
              uploadPending |-> FALSE, uploadLastFlush |-> 0]
  /\ renderer = DefaultRenderer
  /\ rparams = DefaultRenderer
  /\ fparams = DefaultFrameParams
  /\ frame = InitFrame
  /\ inFlight = FALSE
  /\ crashed = FALSE
  /\ samples = [q \in Quadrants |-> 0]
  /\ last = NoCall
  /\ api = NoQuery
  /\ mapped = NoMap
  /\ used = [commits |-> 0, uploads |-> 0]
  /\ px \in {RaygenStart(scene) : scene \in Scenes}
  /\ quad = InitQuad
  /\ tf = InitTF

NextRaygen ==
  \/ RaygenIteration
  \/ RaygenAccumResults

SpecRaygen == InitRaygen /\ [][NextRaygen]_vars

(* every stack of surfaces and every volume, under one light and one      *)
(* background: the scenes that decide how long the loop runs              *)
LoopScenes ==
  {scene \in Scenes :
     /\ scene.shadow = [surfaces |-> <<>>, volumes |-> <<>>, order |-> <<>>]
     /\ scene.bg.a = 0
     /\ scene.tmax = 20}

InitRaygenLoop ==
  /\ state = [commitBuffer |-> {}, commitLastFlush |-> 0,
              uploadPending |-> FALSE, uploadLastFlush |-> 0]
  /\ renderer = DefaultRenderer
  /\ rparams = DefaultRenderer
  /\ fparams = DefaultFrameParams
  /\ frame = InitFrame
  /\ inFlight = FALSE
  /\ crashed = FALSE
  /\ samples = [q \in Quadrants |-> 0]
  /\ last = NoCall
  /\ api = NoQuery
  /\ mapped = NoMap
  /\ used = [commits |-> 0, uploads |-> 0]
  /\ px \in {RaygenStart(scene) : scene \in LoopScenes}
  /\ quad = InitQuad
  /\ tf = InitTF

(* the thread of the pixel keeps running until the program returns *)
SpecRaygenFair ==
  InitRaygenLoop /\ [][NextRaygen]_vars /\ WF_vars(NextRaygen)

(* one Quad geometry committed with every pair of arrays *)
NextQuad ==
  \/ \E index \in IndexArrays : \E vertex \in VertexArrays :
       QuadCommit(index, vertex)
  \/ QuadPopulateBuildInput

SpecQuad == Init /\ [][NextQuad]_vars

(* two volumes on one field, committed with every parameter set *)
NextTF ==
  \E v \in Volumes : \E params \in TFConfigs : TFCommit(v, params)

SpecTF == Init /\ [][NextTF]_vars

(* the frame rendered by renderers that have a sample limit *)
NextCap ==
  \/ CommitFrame(FramePlain)
  \/ \E cfg \in CapRendererConfigs : CommitRenderer(cfg)
  \/ Complete
  \/ RenderFrame

SpecCap == Init /\ [][NextCap]_vars

(* ---- properties ---- *)

NoSpuriousReset ==
  (last.launched /\ last.reset) => (last.first \/ last.flushed)

SampleCap ==
  /\ (last.valid /\ last.limit > 0 /\ last.before.frameID >= last.limit
        /\ ~last.pending)
       => /\ ~last.launched
          /\ frame.fb.frameID = last.before.frameID
          /\ frame.fb.checkerboardID = last.before.checkerboardID
          /\ frame.fb.invFrameID = last.before.invFrameID
          /\ frame.m_invFrameID = last.before.m_invFrameID
  /\ (last.valid /\ last.pending) => (last.launched /\ last.reset)

SampleCapWitness ==
  /\ last.valid /\ last.limit > 0 /\ last.before.frameID >= last.limit
  /\ ~last.pending /\ ~last.launched
  /\ frame.fb.frameID = last.before.frameID

(* C5. invFrameID consistency: once newFrame has run, the host copy and the *)
(* device copy of invFrameID are both 1 / (frameID + 1).                    *)
InvFrameIDConsistent ==
  last.ever => /\ frame.m_invFrameID = frame.fb.frameID + 1
               /\ frame.fb.invFrameID = frame.fb.frameID + 1

InvFrameIDConsistentWitness ==
  /\ last.ever
  /\ frame.fb.frameID = 2
  /\ frame.m_invFrameID = 3
  /\ frame.fb.invFrameID = 3

(* C6. nextFrameReset accuracy: when the query is made with the previous    *)
(* render complete, its answer is whether the renderFrame call that follows *)
(* it directly (here: on a valid frame) resets accumulation.                *)
NextFrameResetAccurate ==
  (last.asked /\ last.valid) => (last.answer = (last.launched /\ last.reset))

(* C7 as stated: the nextFrameReset query leaves frameID, checkerboardID,   *)
(* invFrameID and all frame buffers unchanged.                              *)
QueryLeavesFrameAndBuffers ==
  [][(\E wait \in BOOLEAN : GetNextFrameReset(wait))
       => /\ frame'.fb = frame.fb
          /\ frame'.m_invFrameID = frame.m_invFrameID
          /\ samples' = samples
          /\ frame'.buf = frame.buf]_vars

(* C7. The nextFrameReset query launches nothing and leaves frameID,        *)
(* checkerboardID and invFrameID unchanged; the frame buffers change only   *)
(* when the query, made with the previous render complete, flushes a        *)
(* pending commit of the frame itself (Frame::commit resizes them).         *)
QueryIsRenderFree ==
  [][(\E wait \in BOOLEAN : GetNextFrameReset(wait))
       => /\ frame'.fb.frameID = frame.fb.frameID
          /\ frame'.fb.checkerboardID = frame.fb.checkerboardID
          /\ frame'.fb.invFrameID = frame.fb.invFrameID
          /\ frame'.m_invFrameID = frame.m_invFrameID
          /\ samples' = samples
          /\ (frame'.buf # frame.buf \/ frame'.fb.size # frame.fb.size)
               => ("frame" \in state.commitBuffer /\ ~inFlight')]_vars

QueryIsRenderFreeWitness ==
  /\ api.op = "nextFrameReset"
  /\ api.result
  /\ last.ever
  /\ frame.fb.frameID >= 1

(* C8. numSamples is the sample count: after a render without               *)
(* checkerboarding the numSamples property equals the number of samples     *)
(* accumulated into each pixel since the last reset.                        *)
NumSamplesIsSampleCount ==
  (last.launched /\ ~last.cb)
    => \A q \in Quadrants : NumSamples(frame) = samples[q]

(* C9. numSamples is a lower bound under checkerboarding: with              *)
(* checkerboarding enabled the numSamples property is at most the number of *)
(* samples accumulated into any pixel since the last reset.                 *)
NumSamplesLowerBound ==
  Checkerboarding(frame, renderer)
    => \A q \in Quadrants : NumSamples(frame) <= samples[q]

NumSamplesLowerBoundWitness ==
  /\ Checkerboarding(frame, renderer)
  /\ last.launched /\ last.cb
  /\ NumSamples(frame) = 1
  /\ samples[0] = 2
  /\ samples[1] = 1

IdempotentRemap ==
  mapped.again => mapped.same

(* C11. Idempotent re-map: two map calls on the same channel with no        *)
(* renderFrame call and no flush of the commit buffer between them return   *)
(* identical pixel contents, pointer validity, dimensions and pixelType.    *)
IdempotentRemapNoFlush ==
  (mapped.again /\ ~mapped.flushed) => mapped.same

IdempotentRemapNoFlushWitness ==
  /\ mapped.again /\ ~mapped.flushed /\ mapped.same
  /\ mapped.channel = "channel.albedo"
  /\ ~mapped.null
  /\ mapped.contents.scale = 2
  /\ last.launched

(* C12. Synchronization boundary: map() reads the buffers, renderFrame()    *)
(* goes on to flush and launch, and the destructor destroys m_eventEnd only *)
(* when no work of the frame is executing any more.                         *)
SynchronizationBoundary ==
  /\ mapped.called => ~mapped.unfinished
  /\ ~last.overlap
  /\ api.op = "release" => api.ready

SynchronizationBoundaryWitness ==
  \/ /\ mapped.called /\ mapped.waited /\ ~mapped.unfinished
     /\ mapped.fresh /\ last.launched
  \/ /\ api.op = "release" /\ api.result /\ api.ready /\ last.launched

(* C13. Invalid frame is a safe no-op: a renderFrame call on a frame whose  *)
(* last commit found the renderer, the camera or the world missing or       *)
(* invalid returns without crashing and without launching, and leaves       *)
(* frameID, checkerboardID, invFrameID, the pending-reset flag and the      *)
(* buffers unchanged.                                                       *)
InvalidFrameIsNoOp ==
  [][(/\ RenderFrame
      /\ ~frame'.m_valid
      /\ <<frame'.m_renderer, frame'.m_camera, frame'.m_world>>
           # <<"missing", "missing", "missing">>)
       => /\ ~crashed'
          /\ ~last'.launched
          /\ samples' = samples
          /\ frame'.fb.frameID = frame.fb.frameID
          /\ frame'.fb.checkerboardID = frame.fb.checkerboardID
          /\ frame'.fb.invFrameID = frame.fb.invFrameID
          /\ frame'.m_invFrameID = frame.m_invFrameID
          /\ frame'.m_nextFrameReset = frame.m_nextFrameReset
          /\ frame'.buf = frame.buf]_vars


NoFlushDuringLaunch ==
  [][(/\ OtherFrameRender \/ \E wait \in BOOLEAN : GetNextFrameReset(wait)
      /\ state'.commitLastFlush # state.commitLastFlush)
       => ~inFlight']_vars

(* C20. Denoise toggle: a renderFrame call (on a valid frame) that finds    *)
(* the denoise mode of the renderer different from the mode the previous    *)
(* call observed commits the frame once itself and resets accumulation      *)
(* (frameID = 0 after it for spp = 1); a call that finds the mode unchanged *)
(* does not commit the frame itself.                                        *)
DenoiseToggle ==
  last.n >= 1
    => /\ last.toggled
            => /\ last.recommits = 1
               /\ last.launched /\ last.reset
               /\ last.spp = 1 => frame.fb.frameID = 0
       /\ ~last.toggled => last.recommits = 0

DenoiseToggleWitness ==
  /\ last.n >= 2
  /\ last.toggled /\ last.recommits = 1
  /\ last.before.frameID >= 1
  /\ frame.m_denoise
  /\ frame.fb.frameID = 0
  /\ frame.buf.pixel = 1600

(* C16. Opaque-first-hit termination: for a primary ray that crosses N >= 1 *)
(* stacked surfaces of material opacity 1 and no volume, the loop of the    *)
(* raygen program runs exactly one iteration: only the nearest surface is   *)
(* evaluated, the accumulated opacity is at least 0.99 after it, and there  *)
(* is no second surface query and no background composite.                  *)
OpaqueStack(scene) ==
  /\ Len(scene.surfaces) >= 1
  /\ \A i \in 1..Len(scene.surfaces) : scene.surfaces[i] = UNIT
  /\ scene.samples = <<>>

OpaqueFirstHitTermination ==
  (px.pc \in {"loop", "break", "done"} /\ px.iterations >= 1
     /\ OpaqueStack(px.scene))
    => /\ px.iterations = 1
       /\ px.evaluated = <<1>>
       /\ px.outputOpacity >= Saturation
       /\ px.queries = 1
       /\ px.backgrounds = 0
       /\ px.pc # "break"

OpaqueFirstHitTerminationWitness ==
  /\ px.pc = "done"
  /\ OpaqueStack(px.scene)
  /\ Len(px.scene.surfaces) >= 2
  /\ px.iterations = 1
  /\ px.evaluated = <<1>>
  /\ px.outputOpacity = UNIT

(* C17. Depth/ID tie-break: on the first loop iteration, with a surface hit  *)
(* at distance ts and a volume whose first sample is at depth tv, the        *)
(* reported depth and IDs are the volume's when tv < ts and the surface's    *)
(* (with its primitive ID and geometric normal) when ts < tv; when tv = ts   *)
(* the surface wins.                                                         *)
FirstSurfaceAndVolume(p) ==
  /\ p.pc \in {"loop", "break", "done"}
  /\ p.iterations >= 1
  /\ Len(p.scene.surfaces) >= 1
  /\ Len(p.scene.samples) >= 1

DepthIDTieBreak ==
  FirstSurfaceAndVolume(px)
    => LET ts == SurfaceT(1)
           tv == px.scene.samples[1].t
       IN /\ tv < ts => /\ px.depth = tv
                        /\ px.objID = px.scene.samples[1].objID
                        /\ px.instID = px.scene.samples[1].instID
          /\ tv >= ts => /\ px.depth = ts
                         /\ px.primID = 1
                         /\ px.objID = SurfaceObjID(1)
                         /\ px.instID = SurfaceInstID(1)
                         /\ px.outputNormal = <<"Ng", 1>>

DepthIDTieBreakWitness ==
  /\ FirstSurfaceAndVolume(px)
  /\ px.pc = "done"
  /\ px.scene.samples[1].t < SurfaceT(1)
  /\ px.depth = px.scene.samples[1].t
  /\ px.objID = px.scene.samples[1].objID
  /\ px.primID = 0
  /\ px.outputNormal = <<"-ray.dir", 0>>

(* C18. Miss branch: in a loop iteration where no surface is hit, the loop   *)
(* terminates after that iteration, and the contribution added to the output *)
(* is the premultiplied colour and the opacity of the volume (the colour the *)
(* march returned times its opacity) composited over the background with the *)
(* over operator, result = src + dst * (1 - src.alpha), and that result is   *)
(* composited behind the output accumulated so far.                          *)
Over(src, dst) ==
  [c |-> src.c + Mul(dst.c, UNIT - src.a),
   a |-> src.a + Mul(dst.a, UNIT - src.a)]

RECURSIVE AccumulatedOpacity(_, _, _, _)
AccumulatedOpacity(volumes, order, k, a) ==
  IF k > Len(order)
    THEN a
    ELSE AccumulatedOpacity(volumes, order, k + 1,
                            a + Mul(volumes[order[k]], UNIT - a))

Shaded(p) == p.pc \in {"loop", "break", "done"} /\ Len(p.evaluated) >= 1

BackgroundKeepsSentinel ==
  (px.pc = "done" /\ px.scene.surfaces = <<>> /\ px.scene.samples = <<>>)
    => /\ px.depth = FarDepth
       /\ px.outputNormal = <<"ray.dir", 0>>
       /\ px.primID = NoID
       /\ px.objID = NoID
       /\ px.instID = NoID

(* C22. Raygen loop termination: with finitely many surfaces along the ray   *)
(* the loop terminates and accumResults is called exactly once; every        *)
(* iteration that finds a surface moves the lower bound of the ray strictly  *)
(* behind that hit, so no surface is evaluated twice.                        *)
Traced(p) == p.pc \in {"loop", "break", "done"}

RaygenTerminates ==
  /\ <>(px.pc = "done" /\ px.results = 1)
  /\ [](Traced(px)
          => /\ px.results <= 1
             /\ px.results = 1 <=> px.pc = "done"
             /\ \A j \in 1..Len(px.evaluated) :
                  /\ px.lower >= SurfaceT(px.evaluated[j])
                  /\ \A k \in 1..Len(px.evaluated) :
                       j < k => px.evaluated[j] < px.evaluated[k])

RaygenTerminatesWitness ==
  /\ px.pc = "done"
  /\ px.results = 1
  /\ px.evaluated = <<1, 2>>
  /\ px.lower = SurfaceT(2)
  /\ px.miss.taken

(* C23. First-hit attribution is frozen: once the first loop iteration has   *)
(* found a surface and recorded depth, normal, primID, objID and instID, no  *)
(* later iteration, surface hit or miss, changes any of the five.            *)
FirstHitFrozen ==
  [][(px.pc = "loop" /\ Len(px.evaluated) >= 1 /\ RaygenIteration)
       => /\ px'.depth = px.depth
          /\ px'.outputNormal = px.outputNormal
          /\ px'.primID = px.primID
          /\ px'.objID = px.objID
          /\ px'.instID = px.instID]_vars

FirstHitFrozenWitness ==
  /\ px.pc = "done"
  /\ px.evaluated = <<1, 2>>
  /\ px.miss.taken
  /\ Len(px.scene.samples) >= 1
  /\ px.scene.samples[1].t > SurfaceT(1)
  /\ px.depth = SurfaceT(1)
  /\ px.primID = 1
  /\ px.outputNormal = <<"Ng", 1>>

(* C24. Quad triangulation: after a successful commit with n quads,          *)
(* generateIndices has produced exactly 2n index triplets; quad i with       *)
(* corners (a, b, c, d) gives the triangles (a, b, d) at slot 2i and         *)
(* (c, d, b) at slot 2i + 1, where the corners are the i-th entry of         *)
(* primitive.index when present and (4i, 4i+1, 4i+2, 4i+3) otherwise, so     *)
(* every emitted index is a corner of its own quad.                          *)
QuadCorners(q, i) ==
  IF ~q.m_index.null THEN q.m_index.data[i + 1]
  ELSE <<4 * i, 4 * i + 1, 4 * i + 2, 4 * i + 3>>

QuadCount(q) ==
  IF ~q.m_index.null THEN Len(q.m_index.data) ELSE q.m_vertex.size \div 4

QuadTriangulation ==
  (quad.commits >= 1 /\ quad.reported = "none")
    => /\ Len(quad.m_indices) = 2 * QuadCount(quad)
       /\ \A i \in 0..(QuadCount(quad) - 1) :
            LET c == QuadCorners(quad, i)
                corners == {c[1], c[2], c[3], c[4]}
                t0 == quad.m_indices[2 * i + 1]
                t1 == quad.m_indices[2 * i + 2]
            IN /\ t0 = <<c[1], c[2], c[4]>>
               /\ t1 = <<c[3], c[4], c[2]>>
               /\ {t0[1], t0[2], t0[3], t1[1], t1[2], t1[3]} \subseteq corners
       /\ quad.buildInput.built
            => /\ quad.buildInput.numIndexTriplets = 2 * QuadCount(quad)
               /\ ~quad.buildInput.stale

QuadTriangulationWitness ==
  /\ quad.reported = "none"
  /\ quad.buildInput.built
  /\ quad.buildInput.numIndexTriplets = 4
  /\ quad.m_index.data = <<<<5, 4, 1, 0>>, <<0, 1, 2, 3>>>>
  /\ quad.m_indices = <<<<5, 4, 0>>, <<1, 0, 4>>, <<0, 1, 3>>, <<2, 3, 1>>>>

(* C25. Quad commit errors make the quad invalid: after a commit that        *)
(* reported a problem (vertex.position missing, or a vertex count that is    *)
(* not a multiple of 4 with no primitive.index), isValid() returns false,    *)
(* so no index buffer of an earlier commit is used.                          *)
QuadErrorsInvalidate ==
  /\ (quad.commits >= 1 /\ quad.reported # "none") => ~QuadIsValid(quad)
  /\ ~quad.buildInput.stale

(* C26. TransferFunction1D commit errors make the volume invalid: after a    *)
(* commit that returned early (field, color or opacity missing, or           *)
(* color/color.position or opacity/opacity.position of different sizes)      *)
(* isValid() is false; whenever isValid() is true the volume holds a live    *)
(* texture created by its latest commit.                                     *)
TFErrorsInvalidate ==
  \A v \in Volumes :
    LET vol == tf.volume[v]
    IN (vol.committed >= 1 /\ ~tf.crashed)
         => /\ vol.reported # "none" => ~TFIsValid(vol)
            /\ TFIsValid(vol) => vol.m_textureObject = vol.committed

(* C27. Opacity positions are independent of color positions: the opacity    *)
(* samples are interpolated at opacity.position exactly when it is supplied  *)
(* and at linearly generated positions otherwise, for all four combinations  *)
(* of color.position and opacity.position, and no absent array is            *)
(* dereferenced.                                                             *)
TFOpacityPositionsIndependent ==
  \A v \in Volumes :
    LET vol == tf.volume[v]
        positions ==
          IF ~vol.params.opacityPosition.null
            THEN vol.params.opacityPosition.data
            ELSE GenerateLinearPositions(Len(vol.params.opacity.data),
                                         ValueRange)
    IN (vol.committed >= 1 /\ vol.reported = "none")
         => /\ ~vol.derefNull
            /\ vol.m_tf = TFOpacities(vol.params.opacity.data, positions)

(* C29. Max-opacity grid matches the volume: when two volumes reference the  *)
(* same field, the field's max-opacity grid is consistent with the transfer  *)
(* function of every volume rendered with it: no cell is marked less opaque  *)
(* than the volume's own table makes it.                                     *)
TFMaxOpacityGridMatches ==
  \A v \in Volumes :
    LET vol == tf.volume[v]
    IN (~tf.crashed /\ TFIsValid(vol) /\ vol.m_textureObject # 0)
         => \A c \in 1..Len(GridCells) :
              tf.maxOpacities[c] >= ComputeMaxOpacities(vol.m_tf)[c]

(* C28. frameID never exceeds the sample cap: with a renderer whose sample   *)
(* limit L is positive (any spp >= 1, checkerboarding on or off), frameID is *)
(* at most L in every reachable state.                                       *)
FrameIDWithinCap ==
  (last.launched /\ last.limit > 0) => frame.fb.frameID <= last.limit

(* C30. Pixel-type round trip: for every channel c and every data type T set *)
(* as channel.c before a valid commit, map(c) returns null with              *)
(* ANARI_UNKNOWN, or a buffer whose reported pixelType is T; and a channel   *)
(* requested with the type that map reports for it (normal or albedo as      *)
(* FLOAT32_VEC3) is mappable.                                                *)
PixelTypeRoundTrip ==
  (mapped.fresh /\ frame.m_valid /\ mapped.channel # "none"
     /\ mapped.requested # ANARI_UNKNOWN)
    => /\ \/ mapped.null /\ mapped.pixelType = ANARI_UNKNOWN
          \/ ~mapped.null /\ mapped.pixelType = mapped.requested
       /\ (mapped.channel \in {"channel.normal", "channel.albedo"}
             /\ mapped.requested = ANARI_FLOAT32_VEC3) => ~mapped.null

====
